---- MODULE Spec2Model ----
(***************************************************************************)
(* The consensus Node of pkg/consensus/node.go: its round bookkeeping      *)
(* (memberships, notarizeChs, cancelNotarize under mu), the goroutines it  *)
(* starts (one Notary per notary membership, one beacon-share signer per   *)
(* random-beacon membership) and the callers that drive it (StartRound,    *)
(* EndRound, RecvBlockProposal).                                           *)
(*                                                                         *)
(* Notary, RandomBeacon, Chain and Networking are used by node.go but are  *)
(* not part of the sources at hand: they are modelled from spec.md         *)
(* (sections 4.1 to 4.4) and marked so in MODEL_MAP.json.                  *)
(***************************************************************************)
EXTENDS Integers, Sequences, FiniteSets, Bags, TLC

\* Rounds are 0..MaxRound.
MaxRound == 1
\* Spec explores RecvBlockProposal while every listed channel holds fewer
\* proposals than this.
MaxQueued == 2
\* make(chan *BlockProposal, 20)
QueueCap == 20
\* The network delivers one NtShare to the Chain at most this many times.
MaxDeliveries == 2
\* Quote and Base of a MarketSymbol are WordBytes bytes wide (8 in the
\* program), a byte being 0..MaxByte (0..255 in the program).
WordBytes == 2
MaxByte == 3

\* Group ids of the committees.
Groups == {0, 1}
\* Identifiers of the proposals of a round, as the network delivers them (the
\* proposal this node builds comes back through the network like the others).
BpIds == {1, 2}

NoBp == [round |-> -1, id |-> -1]

\* _StartRound is not inside ProposeBlock.
NoBuild == [round |-> -1, by |-> 0]

NoSymbol == [Quote |-> -1, Base |-> -1]
\* No MarketSymbol is being encoded.
NoMarket == [sym |-> NoSymbol, enc |-> <<>>, dec |-> NoSymbol, err |-> FALSE]

VARIABLES
    memberships,     \* Node.memberships: the group id of each membership
    notarizeChs,     \* Node.notarizeChs: channel ids, in append order
    cancelNotarize,  \* Node.cancelNotarize: 0 is nil, else a cancel context id
    recv,            \* the RecvBlockProposal call holding mu: [bp, at]; at = 0: none
    attempts,        \* the notary goroutines started so far
    chanBuf,         \* the buffer of each channel made by StartRound
    nCtx,            \* number of round-level cancel contexts made so far
    ntCtxDone,       \* the round-level cancel contexts that were cancelled
    dlDone,          \* the deadline contexts whose deadline has passed
    dlReleased,      \* the deadline contexts released by cancel()
    ntShares,        \* the NtShares handed to onNotarize
    proposed,        \* the BlockProposals built by StartRound
    beaconTasks,     \* the beacon-share goroutines of EndRound not yet run
    rbShares,        \* the RandBeaconSigShares handed to the network
    history,         \* RandomBeacon.History(): history[r + 1] is round r's Sig
    lastStarted,     \* the round of the last StartRound call, -1 before
    queueBound,      \* RecvBlockProposal is explored below this queue length
    bpIds,           \* the proposal identifiers in circulation
    crashed,         \* a goroutine has panicked: the process is gone
    cfg,             \* Node.cfg: GroupSize and GroupThreshold
    finalized,       \* Chain: the notarized proposal recorded for each round
    ntRecv,          \* Chain: the NtShares delivered to it, with repetitions
    credentials,     \* the NodeCredentials given to MakeNode
    made,            \* MakeNode: "none" before the call, then "node" or "panic"
    market,          \* a MarketSymbol, its encoding and what Decode made of it
    building         \* the ProposeBlock call _StartRound is in, holding mu

vars == <<memberships, notarizeChs, cancelNotarize, recv, attempts, chanBuf,
          nCtx, ntCtxDone, dlDone, dlReleased, ntShares, proposed,
          beaconTasks, rbShares, history, lastStarted, queueBound,
          bpIds, crashed, cfg, finalized, ntRecv,
                   credentials, made, market,
                   building>>

----------------------------------------------------------------------------
\* The signature of round 0, from randSeed := Rand(SHA3([]byte("dex"))).
GenesisSig == 0

\* SHA3, reduced to a small range.
SHA3(x) == (7 * x + 3) % 8

\* The group signature of round `round` over the hash of the previous one.
GroupSig(round, msg) == (3 * msg + round) % 8

\* The randomness the committees of `round` are drawn from: a digest of
\* History()[0..round).
RECURSIVE RoundRand(_)
RoundRand(round) ==
    IF round = 0 THEN 5
    ELSE SHA3(RoundRand(round - 1) + history[round])

\* A committee selection that looks at the state of the calling node.
CommitteesLocal(round) ==
    LET x == RoundRand(round) + Len(notarizeChs)
        n == Cardinality(Groups)
    IN  [rb |-> x % n, bp |-> (x \div 2) % n, nt |-> (x \div 4) % n]

\* RandomBeacon.Committees(round)
Committees(round) ==
    LET x == RoundRand(round)
        n == Cardinality(Groups)
    IN  [rb |-> x % n, bp |-> (x \div 2) % n, nt |-> (x \div 4) % n]

\* The round the chain is in, as the callers of RecvBlockProposal see it.
CurrentRound == IF lastStarted < 0 THEN 0 ELSE lastStarted

\* Only the first membership of group g.
RECURSIVE MembersOfFirst(_, _)
MembersOfFirst(g, i) ==
    IF i > Len(memberships) THEN <<>>
    ELSE IF memberships[i] = g THEN <<i>>
    ELSE MembersOfFirst(g, i + 1)

\* The indices of the memberships of group g, in range order.
RECURSIVE MembersOf(_, _)
MembersOf(g, i) ==
    IF i > Len(memberships) THEN <<>>
    ELSE (IF memberships[i] = g THEN <<i>> ELSE <<>>) \o MembersOf(g, i + 1)

Active(a) == attempts[a].state \in {"Idle", "Collecting"}

\* What a Notary signs: a proposal of its own round.
ValidFor(a, bp) == bp.round = attempts[a].round

----------------------------------------------------------------------------
\* The memberships MakeNode builds from the credentials.
MembershipChoices == {<<>>, <<0>>, <<1>>}

InitNode ==
    /\ memberships \in MembershipChoices
    /\ notarizeChs = <<>>
    /\ cancelNotarize = 0
    /\ recv = [bp |-> NoBp, at |-> 0]
    /\ attempts = <<>>
    /\ chanBuf = <<>>
    /\ nCtx = 0
    /\ ntCtxDone = {}
    /\ dlDone = {}
    /\ dlReleased = {}
    /\ ntShares = {}
    /\ proposed = <<>>
    /\ beaconTasks = {}
    /\ rbShares = {}
    /\ history = <<GenesisSig>>
    /\ lastStarted = -1
    /\ crashed = FALSE
    /\ finalized = [r \in 0..MaxRound |-> NoBp]
    /\ ntRecv = EmptyBag
    /\ credentials = [SK |-> TRUE, Groups |-> memberships,
                      GroupShares |-> [j \in 1..Len(memberships) |-> TRUE]]
    /\ made = "node"
    /\ market = NoMarket
    /\ building = NoBuild

Init ==
    /\ InitNode
    /\ queueBound = MaxQueued
    /\ bpIds = BpIds
    /\ cfg = [GroupSize |-> 3, GroupThreshold |-> 2]

----------------------------------------------------------------------------
\* NewAttempt with the Notary given a context that has no deadline.
NewAttemptNoDeadline(round, m, id, cctx) ==
    [round |-> round, member |-> m, inCh |-> id, ctx |-> 0,
     cancelCtx |-> cctx, state |-> "Idle", first |-> NoBp, signed |-> NoBp]

\* The notary goroutine StartRound starts for membership m: its Notary, its
\* input channel inCh, its deadline context ctx and the round's ntCancelCtx.
NewAttempt(round, m, id, cctx) ==
    [round |-> round, member |-> m, inCh |-> id, ctx |-> id,
     cancelCtx |-> cctx, state |-> "Idle", first |-> NoBp, signed |-> NoBp]

\* _StartRound between n.mu.Lock() and the deferred Unlock.
StartRoundLocked(round) ==
    /\ ~crashed
    /\ recv.at = 0
    /\ round = lastStarted + 1
    /\ round <= MaxRound
    /\ round < Len(history)
    /\ LET c    == Committees(round)
           bpMs == MembersOf(c.bp, 1)
           ntMs == MembersOf(c.nt, 1)
           base == Len(attempts)
           cctx == nCtx + 1
           new  == [k \in 1..Len(ntMs) |->
                       NewAttempt(round, ntMs[k], base + k, cctx)]
       IN  /\ proposed' = proposed \o
                  [k \in 1..Len(bpMs) |-> [round |-> round, by |-> bpMs[k]]]
           /\ attempts' = attempts \o new
           /\ chanBuf' = chanBuf \o [k \in 1..Len(ntMs) |-> <<>>]
           /\ notarizeChs' = notarizeChs \o [k \in 1..Len(ntMs) |-> base + k]
           /\ IF ntMs /= <<>>
                THEN cancelNotarize' = cctx /\ nCtx' = cctx
                ELSE UNCHANGED <<cancelNotarize, nCtx>>
    /\ lastStarted' = round
    /\ UNCHANGED <<memberships, recv, ntCtxDone, dlDone, dlReleased, ntShares,
                   beaconTasks, rbShares, history, queueBound, bpIds, crashed,
                   cfg, finalized, ntRecv, credentials, made, market>>

\* A whole _StartRound call, from Lock to Unlock.
StartRound(round) ==
    /\ building = NoBuild
    /\ StartRoundLocked(round)
    /\ UNCHANGED building

\* EndRound calling n.cancelNotarize without the nil check.
EndRoundNoNilCheck(round) ==
    /\ ~crashed
    /\ recv.at = 0
    /\ round \in 0..MaxRound
    /\ round <= Len(history)
    /\ IF cancelNotarize = 0
         THEN /\ crashed' = TRUE
              /\ notarizeChs' = <<>>
              /\ UNCHANGED <<ntCtxDone, beaconTasks>>
         ELSE /\ UNCHANGED crashed
              /\ notarizeChs' = <<>>
              /\ ntCtxDone' = ntCtxDone \cup {cancelNotarize}
              /\ LET rbMs == MembersOf(Committees(round).rb, 1)
                 IN  beaconTasks' = beaconTasks \cup
                         {[round |-> round, member |-> rbMs[k]] :
                             k \in 1..Len(rbMs)}
    /\ UNCHANGED <<memberships, cancelNotarize, recv, attempts, chanBuf, nCtx,
                   dlDone, dlReleased, ntShares, proposed, rbShares, history,
                   lastStarted, queueBound, bpIds, cfg, ntRecv,
                   credentials, made, market,
                   building>>

EndRound(round) ==
    /\ ~crashed
    /\ recv.at = 0
    /\ round \in 0..MaxRound
    /\ round <= Len(history)
    /\ notarizeChs' = <<>>
    /\ ntCtxDone' = IF cancelNotarize /= 0
                      THEN ntCtxDone \cup {cancelNotarize}
                      ELSE ntCtxDone
    /\ LET rbMs == MembersOf(Committees(round).rb, 1)
       IN  beaconTasks' = beaconTasks \cup
               {[round |-> round, member |-> rbMs[k]] : k \in 1..Len(rbMs)}
    /\ UNCHANGED <<memberships, cancelNotarize, recv, attempts, chanBuf, nCtx,
                   dlDone, dlReleased, ntShares, proposed, rbShares, history,
                   lastStarted, queueBound, bpIds, crashed, cfg, ntRecv,
                   credentials, made, market,
                   building>>

\* BeaconSign hashing the latest entry of the history instead of history[round].
BeaconSignLatest(t) ==
    /\ ~crashed
    /\ t \in beaconTasks
    /\ beaconTasks' = beaconTasks \ {t}
    /\ rbShares' = rbShares \cup
           {[round |-> t.round + 1, member |-> t.member,
             msg |-> SHA3(history[Len(history)])]}
    /\ UNCHANGED <<memberships, notarizeChs, cancelNotarize, recv, attempts,
                   chanBuf, nCtx, ntCtxDone, dlDone, dlReleased, ntShares,
                   proposed, history, lastStarted, queueBound, bpIds, crashed,
                   cfg, finalized, ntRecv,
                   credentials, made, market,
                   building>>

\* The goroutine of EndRound: history[round] panics when the entry is missing.
BeaconSign(t) ==
    /\ ~crashed
    /\ t \in beaconTasks
    /\ beaconTasks' = beaconTasks \ {t}
    /\ IF t.round < Len(history)
         THEN /\ rbShares' = rbShares \cup
                     {[round |-> t.round + 1, member |-> t.member,
                       msg |-> SHA3(history[t.round + 1])]}
              /\ UNCHANGED crashed
         ELSE /\ crashed' = TRUE
              /\ UNCHANGED rbShares
    /\ UNCHANGED <<memberships, notarizeChs, cancelNotarize, recv, attempts,
                   chanBuf, nCtx, ntCtxDone, dlDone, dlReleased, ntShares,
                   proposed, history, lastStarted, queueBound, bpIds, cfg,
                   finalized, ntRecv,
                   credentials, made, market,
                   building>>

\* A send that overtakes the proposals already waiting in the channel.
EnqueueFront(q, bp) == <<bp>> \o q

\* ch <- bp
Enqueue(q, bp) == Append(q, bp)

\* for _, ch := range n.notarizeChs { ch <- bp }, from position i on: the
\* sends that go through, and the position of the one that blocks (0: none).
RECURSIVE Fan(_, _, _)
Fan(buf, i, bp) ==
    IF i > Len(notarizeChs) THEN [buf |-> buf, at |-> 0]
    ELSE LET ch == notarizeChs[i]
         IN  IF Len(buf[ch]) >= QueueCap THEN [buf |-> buf, at |-> i]
             ELSE Fan([buf EXCEPT ![ch] = Enqueue(@, bp)], i + 1, bp)

\* The channels positions from..(at - 1) of notarizeChs were sent bp.
Delivered(from, at) ==
    {notarizeChs[j] : j \in from..(IF at = 0 THEN Len(notarizeChs) ELSE at - 1)}

NoteFirst(got, bp) ==
    [a \in 1..Len(attempts) |->
        IF a \in got /\ attempts[a].first = NoBp /\ ValidFor(a, bp)
          THEN [attempts[a] EXCEPT !.first = bp]
          ELSE attempts[a]]

RecvBlockProposal(bp) ==
    /\ ~crashed
    /\ recv.at = 0
    /\ \A j \in 1..Len(notarizeChs) : Len(chanBuf[notarizeChs[j]]) < queueBound
    /\ bp.round = CurrentRound
    /\ bp.id \in bpIds
    /\ LET f == Fan(chanBuf, 1, bp)
       IN  /\ chanBuf' = f.buf
           /\ recv' = [bp |-> IF f.at = 0 THEN NoBp ELSE bp, at |-> f.at]
           /\ attempts' = NoteFirst(Delivered(1, f.at), bp)
    /\ UNCHANGED <<memberships, notarizeChs, cancelNotarize, nCtx, ntCtxDone,
                   dlDone, dlReleased, ntShares, proposed, beaconTasks,
                   rbShares, history, lastStarted, queueBound, bpIds, crashed, cfg, finalized, ntRecv,
                   credentials, made, market,
                   building>>

\* The blocked send of RecvBlockProposal goes through once there is room.
RecvResume ==
    /\ ~crashed
    /\ recv.at > 0
    /\ Len(chanBuf[notarizeChs[recv.at]]) < QueueCap
    /\ LET f == Fan(chanBuf, recv.at, recv.bp)
       IN  /\ chanBuf' = f.buf
           /\ recv' = [bp |-> IF f.at = 0 THEN NoBp ELSE recv.bp, at |-> f.at]
           /\ attempts' = NoteFirst(Delivered(recv.at, f.at), recv.bp)
    /\ UNCHANGED <<memberships, notarizeChs, cancelNotarize, nCtx, ntCtxDone,
                   dlDone, dlReleased, ntShares, proposed, beaconTasks,
                   rbShares, history, lastStarted, queueBound, bpIds, crashed, cfg, finalized, ntRecv,
                   credentials, made, market,
                   building>>

----------------------------------------------------------------------------
\* Notary.Notarize(ctx, ntCancelCtx, inCh, onNotarize), then cancel().

\* A Notary that goes on signing after its first share.
NotaryRecvAll(a) ==
    /\ ~crashed
    /\ a \in 1..Len(attempts)
    /\ Active(a)
    /\ attempts[a].ctx \notin dlDone
    /\ attempts[a].cancelCtx \notin ntCtxDone
    /\ chanBuf[attempts[a].inCh] /= <<>>
    /\ LET bp == Head(chanBuf[attempts[a].inCh])
       IN  /\ chanBuf' = [chanBuf EXCEPT ![attempts[a].inCh] = Tail(@)]
           /\ attempts' = [attempts EXCEPT ![a].state = "Collecting"]
           /\ ntShares' = IF ValidFor(a, bp)
                             THEN ntShares \cup
                                    {[round |-> bp.round,
                                      member |-> attempts[a].member, bp |-> bp]}
                             ELSE ntShares
    /\ UNCHANGED <<memberships, notarizeChs, cancelNotarize, recv, nCtx,
                   ntCtxDone, dlDone, dlReleased, proposed, beaconTasks,
                   rbShares, history, lastStarted, queueBound, bpIds, crashed,
                   cfg, finalized, ntRecv,
                   credentials, made, market,
                   building>>

\* A proposal arrives before the deadline and before the round is cancelled:
\* the first valid one is signed, anything else is dropped.
NotaryRecv(a) ==
    /\ ~crashed
    /\ a \in 1..Len(attempts)
    /\ Active(a)
    /\ attempts[a].ctx \notin dlDone
    /\ attempts[a].cancelCtx \notin ntCtxDone
    /\ chanBuf[attempts[a].inCh] /= <<>>
    /\ LET bp == Head(chanBuf[attempts[a].inCh])
       IN  /\ chanBuf' = [chanBuf EXCEPT ![attempts[a].inCh] = Tail(@)]
           /\ IF ValidFor(a, bp)
                THEN /\ attempts' = [attempts EXCEPT ![a].state = "Signed",
                                                     ![a].signed = bp]
                     /\ ntShares' = ntShares \cup
                            {[round |-> bp.round, member |-> attempts[a].member,
                              bp |-> bp]}
                     /\ dlReleased' = dlReleased \cup {a}
                ELSE /\ attempts' = [attempts EXCEPT ![a].state = "Collecting"]
                     /\ UNCHANGED <<ntShares, dlReleased>>
    /\ UNCHANGED <<memberships, notarizeChs, cancelNotarize, recv, nCtx,
                   ntCtxDone, dlDone, proposed, beaconTasks, rbShares, history,
                   lastStarted, queueBound, bpIds, crashed, cfg, finalized, ntRecv,
                   credentials, made, market,
                   building>>

NotaryTimeout(a) ==
    /\ ~crashed
    /\ a \in 1..Len(attempts)
    /\ Active(a)
    /\ attempts[a].ctx \in dlDone
    /\ attempts' = [attempts EXCEPT ![a].state = "TimedOut"]
    /\ dlReleased' = dlReleased \cup {a}
    /\ UNCHANGED <<memberships, notarizeChs, cancelNotarize, recv, chanBuf,
                   nCtx, ntCtxDone, dlDone, ntShares, proposed, beaconTasks,
                   rbShares, history, lastStarted, queueBound, bpIds, crashed, cfg, finalized, ntRecv,
                   credentials, made, market,
                   building>>

NotaryCancelled(a) ==
    /\ ~crashed
    /\ a \in 1..Len(attempts)
    /\ Active(a)
    /\ attempts[a].cancelCtx \in ntCtxDone
    /\ attempts' = [attempts EXCEPT ![a].state = "Cancelled"]
    /\ dlReleased' = dlReleased \cup {a}
    /\ UNCHANGED <<memberships, notarizeChs, cancelNotarize, recv, chanBuf,
                   nCtx, ntCtxDone, dlDone, ntShares, proposed, beaconTasks,
                   rbShares, history, lastStarted, queueBound, bpIds, crashed, cfg, finalized, ntRecv,
                   credentials, made, market,
                   building>>

\* time.Now() passes the deadline of the context made for attempt a.
DeadlineFire(a) ==
    /\ ~crashed
    /\ a \in 1..Len(attempts)
    /\ a \notin dlDone
    /\ a \notin dlReleased
    /\ dlDone' = dlDone \cup {a}
    /\ UNCHANGED <<memberships, notarizeChs, cancelNotarize, recv, attempts,
                   chanBuf, nCtx, ntCtxDone, dlReleased, ntShares, proposed,
                   beaconTasks, rbShares, history, lastStarted, queueBound,
                   bpIds, crashed, cfg, finalized, ntRecv,
                   credentials, made, market,
                   building>>

\* The beacon signature of the next round is assembled and appended.
RecvRandBeaconSig ==
    /\ ~crashed
    /\ Len(history) <= MaxRound
    /\ history' = Append(history,
                         GroupSig(Len(history), SHA3(history[Len(history)])))
    /\ UNCHANGED <<memberships, notarizeChs, cancelNotarize, recv, attempts,
                   chanBuf, nCtx, ntCtxDone, dlDone, dlReleased, ntShares,
                   proposed, beaconTasks, rbShares, lastStarted, queueBound,
                   bpIds, crashed, cfg, finalized, ntRecv,
                   credentials, made, market,
                   building>>

----------------------------------------------------------------------------
AllBps == [round : 0..MaxRound, id : BpIds]
AttemptIds == 1..(2 * (MaxRound + 1))
AllTasks == [round : 0..MaxRound, member : 1..2]

Next ==
    \/ \E r \in 0..MaxRound : StartRound(r)
    \/ \E r \in 0..MaxRound : EndRound(r) /\ UNCHANGED finalized
    \/ \E bp \in AllBps : RecvBlockProposal(bp)
    \/ \E a \in AttemptIds : NotaryRecv(a)
    \/ \E a \in AttemptIds : NotaryTimeout(a)
    \/ \E a \in AttemptIds : NotaryCancelled(a)
    \/ \E a \in AttemptIds : DeadlineFire(a)
    \/ \E t \in AllTasks : BeaconSign(t)
    \/ RecvRandBeaconSig

Spec == Init /\ [][Next]_vars

\* The same node when one proposal is delivered again and again, as a network
\* that duplicates messages does: RecvBlockProposal is explored until a send
\* blocks on a full channel.
InitFlood ==
    /\ InitNode
    /\ queueBound = QueueCap + 1
    /\ bpIds = {1}
    /\ cfg = [GroupSize |-> 3, GroupThreshold |-> 2]

NextFlood == Next \/ RecvResume

SpecFlood == InitFlood /\ [][NextFlood]_vars

\* The goroutines of the node are scheduled again and again, and time passes.
Fairness ==
    /\ \A t \in AllTasks : WF_vars(BeaconSign(t))
    /\ \A a \in AttemptIds : WF_vars(NotaryRecv(a))
    /\ \A a \in AttemptIds : WF_vars(NotaryTimeout(a))
    /\ \A a \in AttemptIds : WF_vars(NotaryCancelled(a))
    /\ \A a \in AttemptIds : WF_vars(DeadlineFire(a))

FairSpec == Spec /\ Fairness

\* The flooded node under the same scheduling; a blocked send goes through
\* as soon as its channel has room.
FairSpecFlood == SpecFlood /\ Fairness /\ WF_vars(RecvResume)

----------------------------------------------------------------------------
\* The notary committee of a round as a whole: this node and the other
\* members, each running its own Notary, and the Chain that records the
\* first notarization of a round.

\* The members of a group are numbered 1..GroupSize. Membership i of this
\* node is member i of its group; the other members are other nodes.
RemoteMembers(g) ==
    (1..cfg.GroupSize) \ {i \in 1..Len(memberships) : memberships[i] = g}

\* The Notary of another member of the round's notary committee signs the
\* first valid proposal it is delivered, and nothing else in that round.
RemoteNotarize(round, m, bp) ==
    /\ round < Len(history)
    /\ bp.round = round
    /\ bp.id \in bpIds
    /\ m \in RemoteMembers(Committees(round).nt)
    /\ \A s \in ntShares : ~(s.round = round /\ s.member = m)
    /\ ntShares' = ntShares \cup {[round |-> round, member |-> m, bp |-> bp]}
    /\ UNCHANGED <<memberships, notarizeChs, cancelNotarize, recv, attempts,
                   chanBuf, nCtx, ntCtxDone, dlDone, dlReleased, proposed,
                   beaconTasks, rbShares, history, lastStarted, queueBound,
                   bpIds, crashed, cfg, finalized, ntRecv,
                   credentials, made, market,
                   building>>

\* The distinct members whose shares for bp have been received.
Signers(bp) == {s.member : s \in {x \in ntShares : x.bp = bp}}

\* bp has a threshold notarization.
Notarized(bp) == Cardinality(Signers(bp)) >= cfg.GroupThreshold

\* A notarization reaches the Chain: the first one of a round is recorded
\* and the Chain signals the end of the round to the Node; a later one for
\* the same round is rejected.
Finalize(bp) ==
    /\ Notarized(bp)
    /\ finalized[bp.round] = NoBp
    /\ finalized' = [finalized EXCEPT ![bp.round] = bp]
    /\ EndRound(bp.round)

\* Config{GroupSize, GroupThreshold} as the caller of MakeNode may give it.
Configs ==
    {[GroupSize |-> 2, GroupThreshold |-> 1],
     [GroupSize |-> 2, GroupThreshold |-> 2],
     [GroupSize |-> 3, GroupThreshold |-> 2]}

InitCommittee ==
    /\ InitNode
    /\ queueBound = MaxQueued
    /\ bpIds = BpIds
    /\ cfg \in Configs

NextCommittee ==
    \/ \E r \in 0..MaxRound : StartRound(r)
    \/ \E bp \in AllBps : RecvBlockProposal(bp)
    \/ \E a \in AttemptIds : NotaryRecv(a)
    \/ \E a \in AttemptIds : NotaryTimeout(a)
    \/ \E a \in AttemptIds : NotaryCancelled(a)
    \/ \E a \in AttemptIds : DeadlineFire(a)
    \/ \E t \in AllTasks : BeaconSign(t)
    \/ RecvRandBeaconSig
    \/ \E bp \in AllBps : \E m \in 1..3 : RemoteNotarize(bp.round, m, bp)
    \/ \E bp \in AllBps : Finalize(bp)

SpecCommittee == InitCommittee /\ [][NextCommittee]_vars

----------------------------------------------------------------------------
\* The Chain collecting the NtShares the network delivers, a share possibly
\* more than once, during the round the history has reached.

\* What a proposal is measured by when the deliveries are counted, not the
\* members: the number of shares for bp among `got`, repetitions included.
EndorsersCounted(got, bp) ==
    LET S == {x \in BagToSet(got) : x.bp = bp}
    IN  BagCardinality([x \in S |-> got[x]])

\* The number of distinct members with a share for bp among `got`.
Endorsers(got, bp) ==
    Cardinality({x.member : x \in {y \in BagToSet(got) : y.bp = bp}})

\* The network delivers the share s: the Chain adds it to those of its
\* proposal, and when the round has no block yet and the shares of
\* GroupThreshold members are there it records the proposal and ends the round.
RecvNtShare(s) ==
    /\ ~crashed
    /\ s \in ntShares
    /\ CopiesIn(s, ntRecv) < MaxDeliveries
    /\ LET got == ntRecv (+) SetToBag({s})
       IN  /\ ntRecv' = got
           /\ IF /\ finalized[s.round] = NoBp
                 /\ Endorsers(got, s.bp) >= cfg.GroupThreshold
                THEN /\ finalized' = [finalized EXCEPT ![s.round] = s.bp]
                     /\ recv.at = 0
                     /\ notarizeChs' = <<>>
                     /\ ntCtxDone' = IF cancelNotarize /= 0
                                       THEN ntCtxDone \cup {cancelNotarize}
                                       ELSE ntCtxDone
                     /\ LET rbMs == MembersOf(Committees(s.round).rb, 1)
                        IN  beaconTasks' = beaconTasks \cup
                                {[round |-> s.round, member |-> rbMs[k]] :
                                    k \in 1..Len(rbMs)}
                ELSE UNCHANGED <<finalized, notarizeChs, ntCtxDone, beaconTasks>>
    /\ UNCHANGED <<memberships, cancelNotarize, recv, attempts, chanBuf, nCtx,
                   dlDone, dlReleased, ntShares, proposed, rbShares, history,
                   lastStarted, queueBound, bpIds, crashed, cfg,
                   credentials, made, market,
                   building>>

AllShares == [round : 0..MaxRound, member : 1..3, bp : AllBps]

NextAggregate ==
    \/ \E r \in 0..MaxRound : StartRound(r)
    \/ \E bp \in AllBps : RecvBlockProposal(bp)
    \/ \E a \in AttemptIds : NotaryRecv(a)
    \/ \E t \in AllTasks : BeaconSign(t)
    \/ \E bp \in AllBps : \E m \in 1..3 : RemoteNotarize(bp.round, m, bp)
    \/ \E s \in AllShares : RecvNtShare(s)

SpecAggregate == Init /\ [][NextAggregate]_vars

----------------------------------------------------------------------------
\* The construction of the node.

\* NodeCredentials: whether SK yields its public key, the groups, and whether
\* each group share can be retrieved.
AllCredentials ==
    UNION {[SK : BOOLEAN, Groups : {g}, GroupShares : [1..Len(g) -> BOOLEAN]] :
              g \in MembershipChoices}

\* The position of the first group share that cannot be retrieved, 0 if none.
RECURSIVE FirstBadShare(_, _)
FirstBadShare(c, j) ==
    IF j > Len(c.Groups) THEN 0
    ELSE IF ~c.GroupShares[j] THEN j
    ELSE FirstBadShare(c, j + 1)

\* MakeNode ignoring the error of GroupShares[j].Get().
MakeNodeIgnoringShareError ==
    /\ made = "none"
    /\ IF ~credentials.SK
         THEN /\ made' = "panic"
              /\ crashed' = TRUE
              /\ UNCHANGED memberships
         ELSE /\ made' = "node"
              /\ memberships' = credentials.Groups
              /\ UNCHANGED crashed
    /\ UNCHANGED <<notarizeChs, cancelNotarize, recv, attempts, chanBuf, nCtx,
                   ntCtxDone, dlDone, dlReleased, ntShares, proposed,
                   beaconTasks, rbShares, history, lastStarted, queueBound,
                   bpIds, cfg, finalized, ntRecv, credentials,
                   market, building>>

\* MakeNode: NewNode panics when SK has no public key, the loop panics at the
\* first group share that cannot be retrieved, else the node is returned.
MakeNode ==
    /\ made = "none"
    /\ LET bad == FirstBadShare(credentials, 1)
       IN  IF ~credentials.SK
             THEN /\ made' = "panic"
                  /\ crashed' = TRUE
                  /\ UNCHANGED memberships
             ELSE IF bad /= 0
             THEN /\ made' = "panic"
                  /\ crashed' = TRUE
                  /\ memberships' = SubSeq(credentials.Groups, 1, bad - 1)
             ELSE /\ made' = "node"
                  /\ memberships' = credentials.Groups
                  /\ UNCHANGED crashed
    /\ UNCHANGED <<notarizeChs, cancelNotarize, recv, attempts, chanBuf, nCtx,
                   ntCtxDone, dlDone, dlReleased, ntShares, proposed,
                   beaconTasks, rbShares, history, lastStarted, queueBound,
                   bpIds, cfg, finalized, ntRecv, credentials,
                   market, building>>

InitMake ==
    /\ credentials \in AllCredentials
    /\ made = "none"
    /\ market = NoMarket
    /\ building = NoBuild
    /\ memberships = <<>>
    /\ notarizeChs = <<>>
    /\ cancelNotarize = 0
    /\ recv = [bp |-> NoBp, at |-> 0]
    /\ attempts = <<>>
    /\ chanBuf = <<>>
    /\ nCtx = 0
    /\ ntCtxDone = {}
    /\ dlDone = {}
    /\ dlReleased = {}
    /\ ntShares = {}
    /\ proposed = <<>>
    /\ beaconTasks = {}
    /\ rbShares = {}
    /\ history = <<GenesisSig>>
    /\ lastStarted = -1
    /\ crashed = FALSE
    /\ finalized = [r \in 0..MaxRound |-> NoBp]
    /\ ntRecv = EmptyBag
    /\ queueBound = MaxQueued
    /\ bpIds = BpIds
    /\ cfg = [GroupSize |-> 3, GroupThreshold |-> 2]

\* The rounds of a node can only be driven once MakeNode has returned it.
NextMake ==
    \/ MakeNode
    \/ made = "node" /\ \E r \in 0..MaxRound : StartRound(r)
    \/ made = "node" /\ \E r \in 0..MaxRound : EndRound(r) /\ UNCHANGED finalized
    \/ made = "node" /\ \E bp \in AllBps : RecvBlockProposal(bp)
    \/ made = "node" /\ \E a \in AttemptIds : NotaryRecv(a)
    \/ made = "node" /\ \E t \in AllTasks : BeaconSign(t)
    \/ RecvRandBeaconSig

SpecMake == InitMake /\ [][NextMake]_vars

----------------------------------------------------------------------------
\* MarketSymbol{Quote, Base}, Encode and Decode.

\* The values of a Quote or a Base: 0..2^64 - 1 in the program.
WordRange == (MaxByte + 1) ^ WordBytes
AllSymbols == [Quote : 0..(WordRange - 1), Base : 0..(WordRange - 1)]

\* binary.LittleEndian.PutUint64: the bytes of x, lowest first.
RECURSIVE PutUint(_, _)
PutUint(x, n) ==
    IF n = 0 THEN <<>>
    ELSE <<x % (MaxByte + 1)>> \o PutUint(x \div (MaxByte + 1), n - 1)

\* binary.LittleEndian.Uint64
RECURSIVE Uint(_)
Uint(b) ==
    IF b = <<>> THEN 0 ELSE Head(b) + (MaxByte + 1) * Uint(Tail(b))

\* An Encode that writes Base one byte short.
EncodeShort(m) ==
    PutUint(m.Quote, WordBytes) \o PutUint(m.Base, WordBytes - 1) \o <<0>>

\* MarketSymbol.Encode: the bytes of Quote, then the bytes of Base.
Encode(m) == PutUint(m.Quote, WordBytes) \o PutUint(m.Base, WordBytes)

\* MarketSymbol.Decode: an error unless b has the length Encode gives.
Decode(b) ==
    IF Len(b) /= 2 * WordBytes
      THEN [sym |-> NoSymbol, err |-> TRUE]
      ELSE [sym |-> [Quote |-> Uint(SubSeq(b, 1, WordBytes)),
                     Base  |-> Uint(SubSeq(b, WordBytes + 1, 2 * WordBytes))],
            err |-> FALSE]

\* p := m.Encode()
MarketEncode ==
    /\ market.sym /= NoSymbol
    /\ market.enc = <<>>
    /\ market' = [market EXCEPT !.enc = Encode(market.sym)]
    /\ UNCHANGED <<memberships, notarizeChs, cancelNotarize, recv, attempts,
                   chanBuf, nCtx, ntCtxDone, dlDone, dlReleased, ntShares,
                   proposed, beaconTasks, rbShares, history, lastStarted,
                   queueBound, bpIds, crashed, cfg, finalized, ntRecv,
                   credentials, made, building>>

\* err := m1.Decode(p)
MarketDecode ==
    /\ market.enc /= <<>>
    /\ market.dec = NoSymbol
    /\ ~market.err
    /\ LET d == Decode(market.enc)
       IN  market' = [market EXCEPT !.dec = d.sym, !.err = d.err]
    /\ UNCHANGED <<memberships, notarizeChs, cancelNotarize, recv, attempts,
                   chanBuf, nCtx, ntCtxDone, dlDone, dlReleased, ntShares,
                   proposed, beaconTasks, rbShares, history, lastStarted,
                   queueBound, bpIds, crashed, cfg, finalized, ntRecv,
                   credentials, made, building>>

\* A node without memberships, idle, beside the symbol being encoded.
InitMarket ==
    /\ memberships = <<>>
    /\ credentials = [SK |-> TRUE, Groups |-> <<>>, GroupShares |-> <<>>]
    /\ made = "node"
    /\ notarizeChs = <<>>
    /\ cancelNotarize = 0
    /\ recv = [bp |-> NoBp, at |-> 0]
    /\ attempts = <<>>
    /\ chanBuf = <<>>
    /\ nCtx = 0
    /\ ntCtxDone = {}
    /\ dlDone = {}
    /\ dlReleased = {}
    /\ ntShares = {}
    /\ proposed = <<>>
    /\ beaconTasks = {}
    /\ rbShares = {}
    /\ history = <<GenesisSig>>
    /\ lastStarted = -1
    /\ crashed = FALSE
    /\ finalized = [r \in 0..MaxRound |-> NoBp]
    /\ ntRecv = EmptyBag
    /\ queueBound = MaxQueued
    /\ bpIds = BpIds
    /\ cfg = [GroupSize |-> 3, GroupThreshold |-> 2]
    /\ building = NoBuild
    /\ market \in {[sym |-> m, enc |-> <<>>, dec |-> NoSymbol, err |-> FALSE] :
                      m \in AllSymbols}

NextMarket == MarketEncode \/ MarketDecode

SpecMarket == InitMarket /\ [][NextMarket]_vars

----------------------------------------------------------------------------
\* A node with up to two memberships, of one group or of two.
MembershipChoicesTwo == MembershipChoices \cup {<<0, 1>>, <<1, 1>>, <<0, 0>>}

InitStart ==
    /\ memberships \in MembershipChoicesTwo
    /\ credentials = [SK |-> TRUE, Groups |-> memberships,
                      GroupShares |-> [j \in 1..Len(memberships) |-> TRUE]]
    /\ made = "node"
    /\ market = NoMarket
    /\ building = NoBuild
    /\ notarizeChs = <<>>
    /\ cancelNotarize = 0
    /\ recv = [bp |-> NoBp, at |-> 0]
    /\ attempts = <<>>
    /\ chanBuf = <<>>
    /\ nCtx = 0
    /\ ntCtxDone = {}
    /\ dlDone = {}
    /\ dlReleased = {}
    /\ ntShares = {}
    /\ proposed = <<>>
    /\ beaconTasks = {}
    /\ rbShares = {}
    /\ history = <<GenesisSig>>
    /\ lastStarted = -1
    /\ crashed = FALSE
    /\ finalized = [r \in 0..MaxRound |-> NoBp]
    /\ ntRecv = EmptyBag
    /\ queueBound = MaxQueued
    /\ bpIds = {1}
    /\ cfg = [GroupSize |-> 3, GroupThreshold |-> 2]

NextStart ==
    \/ \E r \in 0..MaxRound : StartRound(r)
    \/ \E r \in 0..MaxRound : EndRound(r) /\ UNCHANGED finalized
    \/ \E bp \in AllBps : RecvBlockProposal(bp)
    \/ \E a \in AttemptIds : NotaryRecv(a)
    \/ \E a \in AttemptIds : NotaryTimeout(a)
    \/ \E a \in AttemptIds : DeadlineFire(a)
    \/ RecvRandBeaconSig

SpecStart == InitStart /\ [][NextStart]_vars

\* A node with up to two memberships under the same scheduling.
FairSpecTwo == InitStart /\ [][Next]_vars /\ Fairness

----------------------------------------------------------------------------
\* _StartRound with the time ProposeBlock takes: the call holds n.mu from
\* its first line, and EndRound and RecvBlockProposal wait for n.mu.

\* _StartRound has locked n.mu and calls n.chain.ProposeBlock(n.sk) for a
\* membership of the proposer committee.
ProposeBlockCall(round) ==
    /\ ~crashed
    /\ recv.at = 0
    /\ building = NoBuild
    /\ round = lastStarted + 1
    /\ round <= MaxRound
    /\ round < Len(history)
    /\ MembersOf(Committees(round).bp, 1) /= <<>>
    /\ building' = [round |-> round,
                    by |-> Head(MembersOf(Committees(round).bp, 1))]
    /\ UNCHANGED <<memberships, notarizeChs, cancelNotarize, recv, attempts,
                   chanBuf, nCtx, ntCtxDone, dlDone, dlReleased, ntShares,
                   proposed, beaconTasks, rbShares, history, lastStarted,
                   queueBound, bpIds, crashed, cfg, finalized, ntRecv,
                   credentials, made, market>>

\* ProposeBlock returns the proposal, built and signed; _StartRound goes on
\* to its end and unlocks.
ProposeBlockReturn ==
    /\ building /= NoBuild
    /\ StartRoundLocked(building.round)
    /\ building' = NoBuild

NextLock ==
    \/ \E r \in 0..MaxRound : ProposeBlockCall(r)
    \/ ProposeBlockReturn
    \/ \E r \in 0..MaxRound :
          MembersOf(Committees(r).bp, 1) = <<>> /\ StartRound(r)
    \/ \E r \in 0..MaxRound :
          building = NoBuild /\ EndRound(r) /\ UNCHANGED finalized
    \/ \E bp \in AllBps : building = NoBuild /\ RecvBlockProposal(bp)
    \/ \E a \in AttemptIds : NotaryRecv(a)
    \/ \E a \in AttemptIds : NotaryTimeout(a)
    \/ \E a \in AttemptIds : NotaryCancelled(a)
    \/ \E a \in AttemptIds : DeadlineFire(a)
    \/ \E t \in AllTasks : BeaconSign(t)
    \/ RecvRandBeaconSig

SpecLock == Init /\ [][NextLock]_vars

----------------------------------------------------------------------------
\* The random-beacon committee of a round as a whole: this node and the other
\* members sign shares, and the RandomBeacon aggregates them.

\* Another member of the random-beacon committee of `round` signs its share
\* for round + 1 over the hash of the signature of `round` in its history.
RemoteBeaconSign(round, m) ==
    /\ round < Len(history)
    /\ m \in RemoteMembers(Committees(round).rb)
    /\ LET s == [round |-> round + 1, member |-> m,
                 msg |-> SHA3(history[round + 1])]
       IN  /\ s \notin rbShares
           /\ rbShares' = rbShares \cup {s}
    /\ UNCHANGED <<memberships, notarizeChs, cancelNotarize, recv, attempts,
                   chanBuf, nCtx, ntCtxDone, dlDone, dlReleased, ntShares,
                   proposed, beaconTasks, history, lastStarted, queueBound,
                   bpIds, crashed, cfg, finalized, ntRecv,
                   credentials, made, market,
                   building>>

\* The distinct members whose shares sign (round, msg).
BeaconSigners(round, msg) ==
    {s.member : s \in {x \in rbShares : x.round = round /\ x.msg = msg}}

\* RandomBeacon with a threshold one share too low.
AggregateBeaconEarly ==
    /\ ~crashed
    /\ Len(history) <= MaxRound
    /\ LET round == Len(history)
           msg   == SHA3(history[round])
       IN  /\ Cardinality(BeaconSigners(round, msg)) >= cfg.GroupThreshold - 1
           /\ history' = Append(history, GroupSig(round, msg))
    /\ UNCHANGED <<memberships, notarizeChs, cancelNotarize, recv, attempts,
                   chanBuf, nCtx, ntCtxDone, dlDone, dlReleased, ntShares,
                   proposed, beaconTasks, rbShares, lastStarted, queueBound,
                   bpIds, crashed, cfg, finalized, ntRecv,
                   credentials, made, market,
                   building>>

\* RandomBeacon: GroupThreshold distinct shares over the message of the next
\* round are aggregated into its signature, which is appended to the history.
AggregateBeacon ==
    /\ ~crashed
    /\ Len(history) <= MaxRound
    /\ LET round == Len(history)
           msg   == SHA3(history[round])
       IN  /\ Cardinality(BeaconSigners(round, msg)) >= cfg.GroupThreshold
           /\ history' = Append(history, GroupSig(round, msg))
    /\ UNCHANGED <<memberships, notarizeChs, cancelNotarize, recv, attempts,
                   chanBuf, nCtx, ntCtxDone, dlDone, dlReleased, ntShares,
                   proposed, beaconTasks, rbShares, lastStarted, queueBound,
                   bpIds, crashed, cfg, finalized, ntRecv,
                   credentials, made, market,
                   building>>

NextBeacon ==
    \/ \E r \in 0..MaxRound : StartRound(r)
    \/ \E r \in 0..MaxRound : EndRound(r) /\ UNCHANGED finalized
    \/ \E t \in AllTasks : BeaconSign(t)
    \/ \E r \in 0..MaxRound : \E m \in 1..3 : RemoteBeaconSign(r, m)
    \/ AggregateBeacon

SpecBeacon == Init /\ [][NextBeacon]_vars

----------------------------------------------------------------------------
\* The properties.

\* The NtShares of the membership and round of notary attempt a.
SharesOf(a) ==
    {s \in ntShares : s.round = attempts[a].round
                      /\ s.member = attempts[a].member}

\* The proposals of round r that have a threshold notarization.
NotarizedIn(r) == {bp \in AllBps : bp.round = r /\ Notarized(bp)}

C2_NoDoubleSign ==
    \A a \in 1..Len(attempts) :
        /\ Cardinality({s.bp : s \in SharesOf(a)}) <= 1
        /\ attempts[a].state = "Signed" =>
              /\ attempts[a].first /= NoBp
              /\ SharesOf(a) = {[round |-> attempts[a].round,
                                 member |-> attempts[a].member,
                                 bp |-> attempts[a].first]}
        /\ attempts[a].state /= "Signed" => SharesOf(a) = {}

\* A notary has signed and another valid proposal, distinct from the signed
\* one, was delivered to it.
C2_Witness ==
    \E a \in 1..Len(attempts) :
        /\ attempts[a].state = "Signed"
        /\ \E k \in 1..Len(chanBuf[a]) :
              /\ ValidFor(a, chanBuf[a][k])
              /\ chanBuf[a][k] /= attempts[a].signed

\* C3: RecvBlockProposal is never held up in a send: it delivers to every
\* listed channel and returns, whatever the notaries do.
C3_FanOutNeverBlocks == recv.at = 0

\* C4: when EndRound returns the list of notary channels is empty and every
\* notary attempt still running has its round-level cancellation fired.
C4_EndRoundCancelsAll ==
    [][(\E r \in 0..MaxRound : EndRound(r)) =>
          /\ notarizeChs' = <<>>
          /\ \A a \in 1..Len(attempts) :
                Active(a) => attempts[a].cancelCtx \in ntCtxDone']_vars

\* C5: a call of EndRound does not panic, whether no notarization was ever
\* started, the notarization has completed or EndRound was called before,
\* and it changes neither a finished notary attempt nor the shares emitted.
C5_EndRoundIdempotent ==
    [][(\E r \in 0..MaxRound : EndRound(r)) =>
          /\ crashed' = crashed
          /\ ntShares' = ntShares
          /\ \A a \in 1..Len(attempts) :
                ~Active(a) => attempts'[a] = attempts[a]]_vars

\* EndRound was called after a notary had signed, and called again for a
\* round whose beacon share was already produced.
C5_Witness ==
    /\ \E a \in 1..Len(attempts) :
          /\ attempts[a].state = "Signed"
          /\ attempts[a].cancelCtx \in ntCtxDone
    /\ \E t \in beaconTasks : \E s \in rbShares :
          s.round = t.round + 1 /\ s.member = t.member

\* C6: every RandBeaconSigShare is for a round r + 1 whose predecessor r has
\* its signature in the history, and signs the hash of that signature; so no
\* share exists for a round whose predecessor is missing from the history.
C6_BeaconCausality ==
    \A s \in rbShares :
        /\ s.round >= 1
        /\ s.round <= Len(history)
        /\ s.msg = SHA3(history[s.round])

\* A share exists for a round whose predecessor is not the genesis round: the
\* history had grown before the goroutine read it.
C6_Witness ==
    \E s \in rbShares : s.round > 1

\* C7: once the deadline of a notary attempt has passed without the attempt
\* having signed, it never signs and emits no share, also when proposals are
\* queued afterwards; unless the round is cancelled meanwhile the only state
\* it moves to is TimedOut.
C7_TimeoutEmitsNothing ==
    /\ [](\A a \in 1..Len(attempts) :
            /\ a \in dlDone =>
                  /\ attempts[a].state /= "Signed"
                  /\ SharesOf(a) = {}
            /\ attempts[a].state = "TimedOut" => a \in dlDone)
    /\ [][\A a \in 1..Len(attempts) :
            (a \in dlDone /\ Active(a)) =>
                attempts'[a].state \in
                    {attempts[a].state, "TimedOut"} \cup
                    (IF attempts[a].cancelCtx \in ntCtxDone
                       THEN {"Cancelled"} ELSE {})]_vars

\* An attempt has timed out with a valid proposal waiting in its channel.
C7_Witness ==
    \E a \in 1..Len(attempts) :
        /\ attempts[a].state = "TimedOut"
        /\ \E k \in 1..Len(chanBuf[a]) : ValidFor(a, chanBuf[a][k])

\* Round r has ended without a notarization by this node: each of its notary
\* attempts has timed out.
NoBlock(r) ==
    \A a \in 1..Len(attempts) :
        attempts[a].round = r => attempts[a].state = "TimedOut"

C9_NeverCrashes == ~crashed

\* C10: a notary attempt is only ever handed proposals of its own round.
C10_OwnRoundOnly ==
    \A a \in 1..Len(attempts) : \A k \in 1..Len(chanBuf[a]) :
        chanBuf[a][k].round = attempts[a].round

\* C11: the beacon history only grows at its end, an entry never changes, and
\* an entry is added only by the aggregation of at least GroupThreshold
\* distinct shares that sign the message of the next round, the hash of the
\* last signature.
C11_HistoryAppendOnly ==
    [][/\ Len(history') >= Len(history)
       /\ \A i \in 1..Len(history) : history'[i] = history[i]
       /\ history' /= history =>
             LET round == Len(history)
                 msg   == SHA3(history[round])
             IN  /\ Len(history') = round + 1
                 /\ Cardinality(BeaconSigners(round, msg)) >= cfg.GroupThreshold
                 /\ history'[round + 1] = GroupSig(round, msg)]_vars

\* Every round has its signature, and a share of this node was among those
\* aggregated.
C11_Witness ==
    /\ Len(history) = MaxRound + 1
    /\ \E s \in rbShares : \E i \in 1..Len(memberships) :
          /\ s.member = i
          /\ s.round < Len(history)
          /\ memberships[i] = Committees(s.round - 1).rb
          /\ s.msg = SHA3(history[s.round])

\* C12: the block recorded for a round has shares of at least GroupThreshold
\* distinct members among those delivered, however often each was delivered,
\* and once a block is recorded for a round no further share, of another
\* member or a repetition, changes it.
C12_AggregationIdempotent ==
    /\ [](\A r \in 0..MaxRound :
            finalized[r] /= NoBp =>
                Cardinality({x.member : x \in {y \in BagToSet(ntRecv) :
                                                 y.bp = finalized[r]}})
                    >= cfg.GroupThreshold)
    /\ [][\A r \in 0..MaxRound :
            finalized[r] /= NoBp => finalized'[r] = finalized[r]]_vars

\* A recorded block has received a share twice and the shares of more members
\* than the threshold.
C12_Witness ==
    \E r \in 0..MaxRound :
        /\ finalized[r] /= NoBp
        /\ \E s \in BagToSet(ntRecv) :
              s.bp = finalized[r] /\ CopiesIn(s, ntRecv) >= 2
        /\ Endorsers(ntRecv, finalized[r]) > cfg.GroupThreshold

C14_StartupKeyFailureFatal ==
    /\ [](made = "node" =>
            /\ credentials.SK
            /\ \A j \in 1..Len(credentials.Groups) : credentials.GroupShares[j]
            /\ memberships = credentials.Groups)
    /\ []((made /= "none" /\ (~credentials.SK
                              \/ FirstBadShare(credentials, 1) /= 0)) =>
            /\ made = "panic"
            /\ crashed
            /\ lastStarted = -1
            /\ attempts = <<>>
            /\ proposed = <<>>
            /\ beaconTasks = {}
            /\ notarizeChs = <<>>)
    /\ [][made = "panic" => made' = "panic"]_vars

\* MakeNode has panicked on a group share although SK was good, and the
\* beacon went on without the node.
C14_Witness ==
    /\ made = "panic"
    /\ credentials.SK
    /\ FirstBadShare(credentials, 1) /= 0
    /\ Len(history) > 1

\* C15: Decode of the encoding of a MarketSymbol succeeds and gives the
\* symbol back, for every Quote and Base of the full width: the encoding
\* determines the symbol, so two symbols never share one.
C15_EncodeLossless ==
    /\ market.err = FALSE
    /\ market.dec /= NoSymbol => market.dec = market.sym
    /\ market.enc /= <<>> =>
          /\ Len(market.enc) = 2 * WordBytes
          /\ Decode(market.enc) = [sym |-> market.sym, err |-> FALSE]

\* The symbol with the largest Base and the second largest Quote has been
\* encoded and decoded.
C15_Witness ==
    /\ market.sym = [Quote |-> WordRange - 2, Base |-> WordRange - 1]
    /\ market.dec = market.sym

\* C16: a call that holds the node mutex releases it: a RecvBlockProposal
\* whose send is held up on a full channel eventually completes, so that
\* StartRound and EndRound are not kept waiting for ever.
C16_LockEventuallyReleased == (recv.at > 0) ~> (recv.at = 0)

\* The memberships of group g.
Holding(g) == {i \in 1..Len(memberships) : memberships[i] = g}

\* C17: a StartRound(round) step adds one proposal of the round for each
\* membership of the round's proposer committee and no other; it adds one
\* notary attempt of the round for each membership of the round's notary
\* committee and no other, each attempt with a channel and a deadline
\* context that are new, empty and its own; and it appends exactly the new
\* channels to the list. Without such memberships it adds none of these.
C17_StartRoundExact ==
    [][\A r \in 0..MaxRound : StartRound(r) =>
          LET c     == Committees(r)
              newP  == (Len(proposed) + 1)..Len(proposed')
              newA  == (Len(attempts) + 1)..Len(attempts')
          IN  /\ Len(proposed') >= Len(proposed)
              /\ SubSeq(proposed', 1, Len(proposed)) = proposed
              /\ Cardinality(newP) = Cardinality(Holding(c.bp))
              /\ {proposed'[k].by : k \in newP} = Holding(c.bp)
              /\ \A k \in newP : proposed'[k].round = r
              /\ SubSeq(attempts', 1, Len(attempts)) = attempts
              /\ Cardinality(newA) = Cardinality(Holding(c.nt))
              /\ {attempts'[a].member : a \in newA} = Holding(c.nt)
              /\ \A a \in newA :
                    /\ attempts'[a].round = r
                    /\ attempts'[a].state = "Idle"
                    /\ attempts'[a].inCh > Len(chanBuf)
                    /\ chanBuf'[attempts'[a].inCh] = <<>>
                    /\ attempts'[a].ctx \notin dlDone \cup dlReleased
                    /\ attempts'[a].ctx /= 0
                    /\ \A b \in 1..Len(attempts') :
                          b /= a =>
                              /\ attempts'[b].inCh /= attempts'[a].inCh
                              /\ attempts'[b].ctx /= attempts'[a].ctx
              /\ Len(notarizeChs') = Len(notarizeChs) + Cardinality(newA)
              /\ SubSeq(notarizeChs', 1, Len(notarizeChs)) = notarizeChs
              /\ {notarizeChs'[j] :
                     j \in (Len(notarizeChs) + 1)..Len(notarizeChs')}
                   = {attempts'[a].inCh : a \in newA}]_vars

\* One StartRound has started two notaries, each for a membership of the
\* notary committee, and has built no proposal, the node not being in the
\* proposer committee.
C17_Witness ==
    /\ proposed = <<>>
    /\ \E a, b \in 1..Len(attempts) :
          /\ a /= b
          /\ attempts[a].round = attempts[b].round
          /\ attempts[a].member /= attempts[b].member

\* C18: every channel in the node's list is the channel of a notary attempt
\* of the round started last, and the stored cancellation is the one of
\* those attempts; no channel of an earlier round is in the list.
C18_ChannelsOfLatestRound ==
    \A j \in 1..Len(notarizeChs) :
        \E a \in 1..Len(attempts) :
            /\ attempts[a].inCh = notarizeChs[j]
            /\ attempts[a].round = lastStarted
            /\ attempts[a].cancelCtx = cancelNotarize

\* C19: no BlockProposal is built or signed while the node mutex is held:
\* _StartRound is never inside ProposeBlock.
C19_NoBuildUnderLock == building = NoBuild

\* C20: every notary attempt comes to rest in one of Signed, Cancelled and
\* TimedOut, whether or not a proposal arrives or EndRound is called.
C20_AttemptsTerminate ==
    \A a \in AttemptIds :
        (a <= Len(attempts))
            ~> (/\ a <= Len(attempts)
                /\ attempts[a].state \in {"Signed", "Cancelled", "TimedOut"})

====
